---- MODULE Spec2Model ----
(***************************************************************************)
(* Booking and availability lifecycle of the tourism application:          *)
(* bookings/views.py (create_booking, create_booking_quick,                *)
(* cancel_booking), bookings/models.py (Booking), tours/models.py          *)
(* (TourAvailability), the status field of bookings/admin.py, the booking   *)
(* endpoints of api/views.py and BookingExtra of bookings/models.py; the    *)
(* computed columns of BookingAdmin (total_price, payment_status); and the  *)
(* reviews of reviews/views.py (create_tour_review, mark_review_helpful,    *)
(* ReviewListView).                                                         *)
(*                                                                         *)
(* The database is the shared state.  Every request is run by a worker     *)
(* (a server thread or process); a worker's step is one database           *)
(* statement in autocommit mode, or one committed transaction.atomic()     *)
(* block.  What a request holds in memory between two steps (the model     *)
(* instances it loaded) is in req[p].                                      *)
(***************************************************************************)
EXTENDS Integers, Sequences, FiniteSets, TLC

\* ----------------------------------------------------------------- bounds
NumProcs == 2       \* workers serving requests at the same time
NumUsers == 2       \* authenticated users
NumWindows == 2     \* TourAvailability rows of the tour package
Capacity == 2       \* max_participants of the bounded windows
MaxN == 2           \* largest number_of_participants a client posts
MaxNamed == 1       \* largest number of participant forms in the formset
MaxBookings == 2    \* Booking rows the model lets the table grow to
NumCodes == 2       \* reference codes uuid4 can come up with
MaxQuantity == 3    \* largest BookingExtra.quantity staff enters
MaxUnitPrice == 3   \* largest BookingExtra.unit_price staff enters, in cents
MaxExtras == 2      \* BookingExtra rows the model lets the table grow to
MaxAmount == 6      \* largest amount a DecimalField(max_digits=10) column
                    \* holds, in cents, scaled down to the prices above
NumTours == 2       \* TourPackage rows
TierPrice == 2      \* price_budget, price_standard and price_luxury of a package
MaxPayments == 2    \* BookingPayment rows the model lets the table grow to
MaxReviews == 2     \* Review rows the model lets the table grow to
MaxRating == 5      \* the best rating a review gives

\* max_participants IS NULL ("capacity on request")
None == -1

Procs == 1..NumProcs
Users == 1..NumUsers
\* The windows of the tour package whose booking pages are modelled, open for
\* booking.
Windows == 1..NumWindows
TourPackages == 1..NumTours
\* get_object_or_404(TourPackage, slug=tour_slug, is_active=True): the package
\* of the booking pages.
TourOfPage == 1
\* Two more TourAvailability rows: a window of another package, and a window
\* of the package that staff has closed (is_available = False).
OtherTourWindow == NumWindows + 1
ClosedWindow == NumWindows + 2
TourAvailabilityRows == 1..(NumWindows + 2)
\* start_date IS NOT given in the query string
NoDate == -1

\* booking_reference: "" before Booking.save(), then "TZ" + 8 hex digits.
NoRef == 0
RefCodes == 1..NumCodes

BOOKING_STATUS == {"pending", "confirmed", "cancelled", "completed", "refunded"}

\* How a save inside a request can end: it succeeds, it raises one of the
\* errors the handler swallows (IntegrityError, TypeError, ValueError), or it
\* raises anything else.
SaveOk == {"ok"}
SaveOutcomes == {"ok", "swallowed", "raised"}

\* How send_mail / render_to_string can end.
MailOk == {"sent"}
MailOutcomes == {"sent", "failed"}

VARIABLES
    booked_participants,   \* [TourAvailabilityRows -> Int]:
                           \* TourAvailability.booked_participants
    bookings,              \* Seq of Booking rows; the index is the booking_reference
    hist,                  \* per booking: what the requests did on its behalf
    pc,                    \* [Procs -> where worker p is in its request]
    req,                   \* [Procs -> the request p serves and what it loaded]
    extras,                \* Seq of BookingExtra rows
    payments,              \* Seq of BookingPayment rows
    reviews,               \* Seq of Review rows; the index is the id
    review_helpful,        \* set of ReviewHelpful rows
    tour_stats             \* TourPackage.average_rating and total_reviews of
                           \* the package of the pages

review_tables == <<reviews, review_helpful, tour_stats>>
vars == <<booked_participants, bookings, hist, pc, req, extras, payments,
          review_tables>>
db == <<booked_participants, bookings>>

Max(a, b) == IF a >= b THEN a ELSE b
Min(a, b) == IF a <= b THEN a ELSE b

\* The last window is capacity-on-request, the others hold Capacity spots.
max_participants(w) == IF w = NumWindows THEN None ELSE Capacity

\* Faulty variant of the property: on-request capacity counts as no capacity.
available_spots_NoneAsZero(max_p, booked) ==
    Max(0, (IF max_p = None THEN 0 ELSE max_p) - booked)

\* TourAvailability.available_spots
available_spots(max_p, booked) ==
    IF max_p = None THEN None ELSE Max(0, max_p - booked)

\* Faulty variant of the check: the comparison is off by one.
InsufficientCapacity_OffByOne(avail_spots, num) ==
    avail_spots # None /\ avail_spots < num - 1

\* Faulty variant of the check: only a full window is refused.
InsufficientCapacity_OnlyWhenFull(avail_spots, num) ==
    avail_spots # None /\ avail_spots <= 0

\* "avail_spots is not None and isinstance(avail_spots, int) and avail_spots < num"
InsufficientCapacity(avail_spots, num) ==
    avail_spots # None /\ avail_spots < num

\* "num = int(...); if num < 1: num = 1"
NormalizeNum(n) == IF n < 1 THEN 1 ELSE n

\* TourAvailability.tour_package
tour_package_of(w) == IF w = OtherTourWindow THEN NumTours ELSE TourOfPage

\* TourAvailability.is_available
is_available(w) == w # ClosedWindow

\* TourAvailability.start_date, as a day number: the closed window is the
\* earliest, the others follow in the order of their ids.  (tour_package,
\* start_date) is unique.
start_date(w) == IF w = ClosedWindow THEN 0 ELSE w

\* QuickBookingForm.is_valid(): the window is chosen among the windows open for
\* booking and the count is positive.  The view builds the form from
\* request.POST alone, so the form does not know the package of the page.
QuickBookingFormValid(w, n) ==
    /\ w \in TourAvailabilityRows
    /\ is_available(w)
    /\ n >= 1

\* order_by('start_date').first() over the open windows of the package of the
\* page.
FirstAvailable == 1

\* get_object_or_404(TourAvailability, pk=availability_id,
\*                   tour_package=tour_package, is_available=True)
QuickAvailabilityFound(availability_id) ==
    /\ availability_id \in TourAvailabilityRows
    /\ tour_package_of(availability_id) = TourOfPage
    /\ is_available(availability_id)

BookingIds == 1..Len(bookings)

NoReq == [kind |-> "none", method |-> "", user |-> 0, availability |-> 0,
          asked |-> 0, num |-> 0, named |-> 0, booking |-> 0, seen |-> 0,
          previous_status |-> "", reference |-> NoRef, mail |-> "",
          remaining |-> <<>>, result |-> "", warning |-> FALSE,
          tour_package |-> 0, start_date |-> NoDate, listed |-> <<>>,
          review |-> 0, total_price |-> <<>>, payment_status |-> "",
          rating |-> 0, is_helpful |-> FALSE]

Init ==
    /\ booked_participants = [w \in TourAvailabilityRows |-> 0]
    /\ bookings = <<>>
    /\ hist = <<>>
    /\ pc = [p \in Procs |-> "idle"]
    /\ req = [p \in Procs |-> NoReq]
    /\ extras = <<>>
    /\ payments = <<>>
    /\ reviews = <<>>
    /\ review_helpful = {}
    /\ tour_stats = [average_rating |-> 0, total_reviews |-> 0]

\* Creates that passed the capacity check and have not committed yet.
InFlight == {q \in Procs : pc[q] = "txn"}

Finish(p, r, res) ==
    /\ pc' = [pc EXCEPT ![p] = "done"]
    /\ req' = [req EXCEPT ![p] = [r EXCEPT !.result = res, !.seen = 0]]

\* ------------------------------------------------------------ create_booking
\* Lines 52-79: the form is validated (this loads the TourAvailability row),
\* the count is normalized and the capacity is checked on the loaded row.
CheckCapacity(p, r) ==
    LET avail_spots == available_spots(max_participants(r.availability),
                                       booked_participants[r.availability])
    IN  IF InsufficientCapacity(avail_spots, r.num)
        THEN Finish(p, r, "insufficient")
        ELSE /\ pc' = [pc EXCEPT ![p] = "txn"]
             /\ req' = [req EXCEPT ![p] =
                          [r EXCEPT !.seen = booked_participants[r.availability]]]

create_booking(p, u, w, n, k) ==
    /\ pc[p] = "idle"
    /\ Len(bookings) + Cardinality(InFlight) < MaxBookings
    /\ LET r == [NoReq EXCEPT !.kind = "create_booking", !.method = "POST",
                              !.tour_package = TourOfPage,
                              !.user = u, !.availability = w, !.asked = n,
                              !.num = NormalizeNum(n), !.named = k]
       IN  IF QuickBookingFormValid(w, n)
           THEN CheckCapacity(p, r)
           ELSE Finish(p, [r EXCEPT !.availability = 0], "invalid")
    /\ UNCHANGED <<booked_participants, bookings, hist, extras, payments, review_tables>>

\* -------------------------------------------------------- create_booking_quick
create_booking_quick(p, u, availability_id, n) ==
    /\ pc[p] = "idle"
    /\ Len(bookings) + Cardinality(InFlight) < MaxBookings
    /\ LET w == IF availability_id = 0 THEN FirstAvailable ELSE availability_id
           r == [NoReq EXCEPT !.kind = "create_booking_quick", !.method = "POST",
                              !.tour_package = TourOfPage,
                              !.user = u, !.availability = w, !.asked = n,
                              !.num = NormalizeNum(n)]
       IN  IF availability_id # 0 /\ ~QuickAvailabilityFound(availability_id)
           THEN Finish(p, [r EXCEPT !.availability = 0], "notfound")
           ELSE CheckCapacity(p, r)
    /\ UNCHANGED <<booked_participants, bookings, hist, extras, payments, review_tables>>

\* Faulty variant: the rows are written outside any transaction.
Persisted_NoRollback(outcome) == TRUE

\* Whether the rows written inside transaction.atomic() outlive the block:
\* an exception that leaves the block rolls all of them back.
Persisted(outcome) == outcome # "raised"

\* Whether availability.save() wrote the counter.
CounterSaved(outcome) == outcome = "ok"

\* Booking.save(): "if not self.booking_reference:" a code is generated.
GenerateReference(reference, code) ==
    IF reference = NoRef THEN code ELSE reference

\* Faulty variant: the column carries no unique constraint.
UniqueViolation_NoConstraint(reference) == FALSE

\* booking_reference is unique=True: the INSERT of a reference that a stored
\* row already has raises IntegrityError.
UniqueViolation(reference) ==
    \E b \in BookingIds : /\ bookings[b].stored
                          /\ bookings[b].booking_reference = reference

\* Faulty variant: the helper lets the failure of the mail out.
MailRaises_Propagates(mail) == mail = "failed"

\* send_booking_confirmation_email: fail_silently=True inside
\* "try: ... except Exception: pass"; no failure leaves the helper.
MailRaises(mail) == FALSE

\* The transaction.atomic() block of both create views: the Booking row (status
\* pending, a generated reference), the participant rows, the counter written
\* from the row loaded before the block, and the confirmation mail.  An
\* exception that leaves the block rolls the rows back.
CreateTxn(p, outcome, mail, code) ==
    LET r == req[p]
        w == r.availability
        reference == GenerateReference(NoRef, code)
        collision == UniqueViolation(reference)
        mailed == IF collision \/ outcome = "raised" THEN "" ELSE mail
        raised == collision \/ outcome = "raised" \/ MailRaises(mailed)
        row == [booking_reference |-> reference, user |-> r.user,
                tour_package |-> r.tour_package,
                tour_availability |-> w,
                number_of_participants |-> r.num,
                booking_status |-> "pending", participants |-> r.named,
                stored |-> TRUE]
        persisted == ~collision /\ Persisted(outcome) /\ ~MailRaises(mailed)
        saved == persisted /\ CounterSaved(outcome)
        r1 == [r EXCEPT !.reference = reference, !.mail = mailed]
    IN  /\ pc[p] = "txn"
        /\ IF persisted
           THEN /\ bookings' = Append(bookings, row)
                /\ hist' = Append(hist, [cancels |-> 0, releases |-> 0])
           ELSE UNCHANGED <<bookings, hist>>
        /\ booked_participants' =
             IF saved
             THEN [booked_participants EXCEPT ![w] = r.seen + r.num]
             ELSE booked_participants
        /\ IF raised
           THEN Finish(p, r1, "error")
           ELSE Finish(p, [r1 EXCEPT !.booking = Len(bookings) + 1,
                                     !.warning = ~CounterSaved(outcome)], "ok")
        /\ UNCHANGED <<extras, payments, review_tables>>

create_booking_txn(p, outcome, mail, code) ==
    /\ req[p].kind = "create_booking"
    /\ CreateTxn(p, outcome, mail, code)

create_booking_quick_txn(p, outcome, mail, code) ==
    /\ req[p].kind = "create_booking_quick"
    /\ CreateTxn(p, outcome, mail, code)

\* ---------------------------------------------------------------- cancel_booking
\* Faulty variant: the lookup does not filter on booking_status.
Cancellable_AnyStatus(u, b) ==
    /\ b \in BookingIds
    /\ bookings[b].stored
    /\ bookings[b].user = u

\* Faulty variant: the lookup does not filter on the requesting user.
Cancellable_AnyUser(u, b) ==
    /\ b \in BookingIds
    /\ bookings[b].stored
    /\ bookings[b].booking_status \in {"pending", "confirmed"}

\* get_object_or_404(Booking, booking_reference=..., user=request.user,
\*                   booking_status__in=['pending', 'confirmed'])
Cancellable(u, b) ==
    /\ b \in BookingIds
    /\ bookings[b].stored
    /\ bookings[b].user = u
    /\ bookings[b].booking_status \in {"pending", "confirmed"}

\* Faulty variant: the view acts on any request method.
IsPost_AnyMethod(method) == TRUE

\* "if request.method == 'POST':"
IsPost(method) == method = "POST"

cancel_booking(p, u, b, method) ==
    /\ pc[p] = "idle"
    /\ LET r == [NoReq EXCEPT !.kind = "cancel_booking", !.method = method,
                              !.user = u, !.booking = b]
       IN  IF ~Cancellable(u, b)
           THEN Finish(p, r, "notfound")
           ELSE IF ~IsPost(method)
           THEN Finish(p, r, "page")
           ELSE /\ pc' = [pc EXCEPT ![p] = "cancel_save"]
                /\ req' = [req EXCEPT ![p] =
                     [r EXCEPT !.previous_status = bookings[b].booking_status,
                               !.num = bookings[b].number_of_participants,
                               !.availability = bookings[b].tour_availability]]
    /\ UNCHANGED <<booked_participants, bookings, hist, extras, payments, review_tables>>

\* "If previously confirmed, free up spots"
ReleasesOnCancel(previous_status) == previous_status = "confirmed"

\* booking.booking_status = 'cancelled'; booking.save()
cancel_save(p) ==
    LET r == req[p]
        b == r.booking
    IN  /\ pc[p] = "cancel_save"
        /\ bookings' = [bookings EXCEPT ![b].booking_status = "cancelled"]
        /\ hist' = [hist EXCEPT ![b].cancels = Min(2, @ + 1)]
        /\ IF ReleasesOnCancel(r.previous_status)
           THEN /\ pc' = [pc EXCEPT ![p] = "cancel_read"]
                /\ req' = req
           ELSE Finish(p, r, "ok")
        /\ UNCHANGED <<booked_participants, extras, payments, review_tables>>

\* availability = booking.tour_availability: the related row is loaded now.
cancel_read(p) ==
    /\ pc[p] = "cancel_read"
    /\ pc' = [pc EXCEPT ![p] = "cancel_write"]
    /\ req' = [req EXCEPT ![p].seen = booked_participants[req[p].availability]]
    /\ UNCHANGED <<booked_participants, bookings, hist, extras, payments, review_tables>>

\* max(0, (availability.booked_participants or 0) - booking.number_of_participants)
Released(booked, n) == Max(0, booked - n)

\* availability.save(): a swallowed failure leaves a warning, any other error
\* ends the request; either way the status is saved and the counter is not.
cancel_write(p, outcome) ==
    LET r == req[p]
        w == r.availability
        new == IF CounterSaved(outcome)
               THEN Released(r.seen, r.num)
               ELSE booked_participants[w]
    IN  /\ pc[p] = "cancel_write"
        /\ booked_participants' = [booked_participants EXCEPT ![w] = new]
        /\ hist' = [hist EXCEPT ![r.booking].releases =
                      IF new < booked_participants[w] THEN Min(2, @ + 1) ELSE @]
        /\ IF outcome = "raised"
           THEN Finish(p, r, "error")
           ELSE Finish(p, [r EXCEPT !.warning = ~CounterSaved(outcome)], "ok")
        /\ UNCHANGED <<bookings, extras, payments, review_tables>>

\* ------------------------------------------------------- get_tour_availability
\* "if getattr(a, 'max_participants', None) is None: remaining = None
\*  else: remaining = max(0, (a.max_participants or 0) - (a.booked_participants or 0))"
remaining(max_p, booked) ==
    IF max_p = None THEN None ELSE Max(0, max_p - booked)

\* Faulty variant: the queryset is not filtered on is_available.
Listed_AnyAvailability(tour_id, start, w) ==
    /\ tour_package_of(w) = tour_id
    /\ start # NoDate => start_date(w) >= start

\* filter(tour_package_id=tour_id, is_available=True), and
\* filter(start_date__gte=start_date) when the query string has a start_date.
Listed(tour_id, start, w) ==
    /\ tour_package_of(w) = tour_id
    /\ is_available(w)
    /\ start # NoDate => start_date(w) >= start

RECURSIVE OrderByStartDate(_)
\* order_by('start_date') over the rows in S
OrderByStartDate(S) ==
    IF S = {} THEN <<>>
    ELSE LET first == CHOOSE w \in S :
                         \A x \in S : start_date(w) <= start_date(x)
         IN  <<first>> \o OrderByStartDate(S \ {first})

\* The AJAX endpoint: one entry per listed window, in the order of the
\* queryset; anything but a GET is answered "Invalid request".
get_tour_availability(p, tour_id, start, method) ==
    /\ pc[p] = "idle"
    /\ LET r == [NoReq EXCEPT !.kind = "get_tour_availability",
                              !.method = method, !.tour_package = tour_id,
                              !.start_date = start]
           rows == {w \in TourAvailabilityRows : Listed(tour_id, start, w)}
       IN  IF method = "GET"
           THEN Finish(p, [r EXCEPT !.listed = OrderByStartDate(rows),
                                    !.remaining =
                                      [w \in rows |->
                                         remaining(max_participants(w),
                                                   booked_participants[w])]],
                       "ok")
           ELSE Finish(p, r, "invalid")
    /\ UNCHANGED <<booked_participants, bookings, hist, extras, payments, review_tables>>

\* The response is sent; the worker is free for the next request.
Respond(p) ==
    /\ pc[p] = "done"
    /\ pc' = [pc EXCEPT ![p] = "idle"]
    /\ req' = [req EXCEPT ![p] = NoReq]
    /\ UNCHANGED <<booked_participants, bookings, hist, extras, payments, review_tables>>

\* ------------------------------------------------------------------- the admin
\* BookingAdmin: booking_status is an editable choice field.
AdminSetStatus(b, s) ==
    /\ b \in BookingIds
    /\ bookings[b].stored
    /\ s \in BOOKING_STATUS
    /\ bookings[b].booking_status # s
    /\ bookings' = [bookings EXCEPT ![b].booking_status = s]
    /\ UNCHANGED <<booked_participants, hist, pc, req, extras, payments, review_tables>>

\* The lifecycle's confirm: staff moves a pending booking to confirmed.
AdminConfirm(b) ==
    /\ b \in BookingIds
    /\ bookings[b].booking_status = "pending"
    /\ AdminSetStatus(b, "confirmed")

\* -------------------------------------------------------------- BookingViewSet
\* The fields of the Booking model.
BookingFields ==
    {"id", "booking_reference", "user", "tour_package", "tour_availability",
     "number_of_participants", "accommodation_type", "booking_status",
     "special_requirements", "dietary_requirements", "contact_name",
     "contact_email", "contact_phone", "created_at", "updated_at",
     "confirmed_at"}

\* Faulty variant: the viewset filters on model fields only.
filterset_fields_ModelOnly == {"booking_status"}

\* BookingViewSet.filterset_fields
filterset_fields == {"booking_status", "payment_status"}

\* BookingSerializer.Meta.fields
SerializerFields ==
    {"id", "booking_reference", "tour_package", "number_of_participants",
     "accommodation_type", "total_price", "currency", "booking_status",
     "payment_status", "created_at"}

\* filter_backends holds DjangoFilterBackend: list() and get_object() build a
\* FilterSet over filterset_fields, and a name that is no model field raises
\* TypeError before any row is looked up.
FilterSetRaises == ~(filterset_fields \subseteq BookingFields)

\* A ModelSerializer builds its fields from Meta.fields, and a name that is
\* neither a field nor an attribute of the model raises ImproperlyConfigured.
SerializerRaises == ~(SerializerFields \subseteq BookingFields)

\* get_queryset(): the bookings of the requesting user.
OwnBooking(u, b) ==
    /\ b \in BookingIds
    /\ bookings[b].stored
    /\ bookings[b].user = u

\* POST /api/bookings/: the serializer cannot be built; and were it built, it
\* carries no tour_availability, so the INSERT would break NOT NULL.  Either
\* way the request ends in an error and stores nothing.
api_create(p, u, n) ==
    /\ pc[p] = "idle"
    /\ Finish(p, [NoReq EXCEPT !.kind = "api_create", !.method = "POST",
                               !.user = u, !.asked = n], "error")
    /\ UNCHANGED <<booked_participants, bookings, hist, extras, payments, review_tables>>

\* PUT/PATCH /api/bookings/<pk>/: booking_status is writable in the serializer.
api_update(p, u, b, s) ==
    /\ pc[p] = "idle"
    /\ LET r == [NoReq EXCEPT !.kind = "api_update", !.method = "PATCH",
                              !.user = u, !.booking = b]
       IN  IF FilterSetRaises
           THEN Finish(p, r, "error") /\ UNCHANGED bookings
           ELSE IF ~OwnBooking(u, b)
           THEN Finish(p, r, "notfound") /\ UNCHANGED bookings
           ELSE IF SerializerRaises
           THEN Finish(p, r, "error") /\ UNCHANGED bookings
           ELSE /\ bookings' = [bookings EXCEPT ![b].booking_status = s]
                /\ Finish(p, r, "ok")
    /\ UNCHANGED <<booked_participants, hist, extras, payments, review_tables>>

\* DELETE /api/bookings/<pk>/: get_object(), then instance.delete().
api_destroy(p, u, b) ==
    /\ pc[p] = "idle"
    /\ LET r == [NoReq EXCEPT !.kind = "api_destroy", !.method = "DELETE",
                              !.user = u, !.booking = b]
       IN  IF FilterSetRaises
           THEN Finish(p, r, "error") /\ UNCHANGED bookings
           ELSE IF ~OwnBooking(u, b)
           THEN Finish(p, r, "notfound") /\ UNCHANGED bookings
           ELSE /\ bookings' = [bookings EXCEPT ![b].stored = FALSE]
                /\ Finish(p, r, "ok")
    /\ UNCHANGED <<booked_participants, hist, extras, payments, review_tables>>

\* ---------------------------------------------------------------- BookingExtra
\* Faulty variant: the total that was posted is stored.
BookingExtra_total_price_AsPosted(quantity, unit_price, total_price) ==
    total_price

\* "self.total_price = self.quantity * self.unit_price": whatever the instance
\* held as total_price is overwritten.
BookingExtra_total_price(quantity, unit_price, total_price) ==
    quantity * unit_price

\* The column takes a value of at most max_digits digits; writing a larger
\* one raises and stores nothing.
Fits(amount) == amount <= MaxAmount

\* The admin form: quantity has MinValueValidator(1), unit_price and
\* total_price are required decimals of at most max_digits digits.
BookingExtraFormValid(quantity, unit_price, total_price) ==
    /\ quantity >= 1
    /\ Fits(unit_price)
    /\ Fits(total_price)

\* BookingExtra.save()
BookingExtra_save(row) ==
    [row EXCEPT !.total_price =
        BookingExtra_total_price(row.quantity, row.unit_price, row.total_price)]

\* Staff adds an extra to booking b.
extra_add(b, quantity, unit_price, total_price) ==
    /\ Len(extras) < MaxExtras
    /\ b \in BookingIds
    /\ bookings[b].stored
    /\ BookingExtraFormValid(quantity, unit_price, total_price)
    /\ LET row == BookingExtra_save(
                     [booking |-> b, quantity |-> quantity,
                      unit_price |-> unit_price, total_price |-> total_price,
                      saves |-> 1])
       IN  /\ Fits(row.total_price)
           /\ extras' = Append(extras, row)
    /\ UNCHANGED <<booked_participants, bookings, hist, pc, req, payments,
                   review_tables>>

\* Staff changes extra i and saves it again.
extra_change(i, quantity, unit_price, total_price) ==
    /\ i \in 1..Len(extras)
    /\ BookingExtraFormValid(quantity, unit_price, total_price)
    /\ LET row == BookingExtra_save(
                     [extras[i] EXCEPT !.quantity = quantity,
                                       !.unit_price = unit_price,
                                       !.total_price = total_price,
                                       !.saves = Min(2, @ + 1)])
       IN  /\ Fits(row.total_price)
           /\ extras' = [extras EXCEPT ![i] = row]
    /\ UNCHANGED <<booked_participants, bookings, hist, pc, req, payments,
                   review_tables>>

\* ---------------------------------------------------------- BookingAdmin
\* The price fields of the TourPackage model; it has no other attribute
\* whose name holds "price" but the method get_price_range.
TourPackagePriceFields == {"price_budget", "price_standard", "price_luxury"}

\* Booking.accommodation_type -> the price field of that tier
TierField(tier) ==
    CASE tier = "budget" -> "price_budget"
      [] tier = "standard" -> "price_standard"
      [] tier = "luxury" -> "price_luxury"

\* Booking.accommodation_type: default='standard'
accommodation_type(b) == "standard"

\* getattr(obj, name, None) on an object whose attributes of that kind are
\* fields, each holding value.
GetAttr(fields, name, value) == IF name \in fields THEN value ELSE None

\* Python's "a or b" on amounts
Or(a, b) == IF a # None /\ a # 0 THEN a ELSE b

ExtrasOf(b) == {i \in 1..Len(extras) : extras[i].booking = b}

RECURSIVE SumExtras(_)
\* "for e in obj.extras.all(): total += Decimal(e.total_price)"
SumExtras(S) ==
    IF S = {} THEN 0
    ELSE LET i == CHOOSE x \in S : TRUE
         IN  extras[i].total_price + SumExtras(S \ {i})

\* BookingAdmin.total_price: the extras, plus a base price taken from
\* booking.base_price, else from tour.price, else from tour.base_price, times
\* the participants; the amount is shown with two decimals and a currency.
BookingAdmin_total_price(b) ==
    LET n == bookings[b].number_of_participants
        base_price == GetAttr(BookingFields, "base_price", TierPrice)
        tour_price == Or(GetAttr(TourPackagePriceFields, "price", TierPrice),
                         GetAttr(TourPackagePriceFields, "base_price", TierPrice))
        base_total == IF base_price # None THEN base_price * n
                      ELSE IF tour_price # None THEN tour_price * n
                      ELSE 0
        currency == Or(GetAttr(BookingFields, "currency", 0), "USD")
    IN  [amount |-> SumExtras(ExtrasOf(b)) + base_total, currency |-> currency]

PAYMENT_STATUS ==
    {"pending", "processing", "completed", "failed", "cancelled", "refunded"}

\* BookingPayment.get_status_display()
get_status_display(status) ==
    CASE status = "pending" -> "Pending"
      [] status = "processing" -> "Processing"
      [] status = "completed" -> "Completed"
      [] status = "failed" -> "Failed"
      [] status = "cancelled" -> "Cancelled"
      [] status = "refunded" -> "Refunded"

PaymentsOf(b) == {i \in 1..Len(payments) : payments[i].booking = b}

\* Faulty variant: the payments are ordered by created_at, oldest first.
LatestPayment_Oldest(S) ==
    CHOOSE i \in S : \A j \in S : payments[i].created_at <= payments[j].created_at

\* obj.payments.order_by('-created_at').first()
LatestPayment(S) ==
    CHOOSE i \in S : \A j \in S : payments[i].created_at >= payments[j].created_at

\* BookingAdmin.payment_status
BookingAdmin_payment_status(b) ==
    IF PaymentsOf(b) = {} THEN "No payment"
    ELSE get_status_display(payments[LatestPayment(PaymentsOf(b))].status)

\* The changelist of the bookings: the row of booking b with its computed
\* columns.
changelist_view(p, b) ==
    /\ pc[p] = "idle"
    /\ b \in BookingIds
    /\ bookings[b].stored
    /\ Finish(p, [NoReq EXCEPT !.kind = "changelist_view", !.method = "GET",
                               !.booking = b,
                               !.total_price = BookingAdmin_total_price(b),
                               !.payment_status = BookingAdmin_payment_status(b)],
              "ok")
    /\ UNCHANGED <<booked_participants, bookings, hist, extras, payments,
                   review_tables>>

\* Staff adds a payment to booking b; created_at is auto_now_add.
payment_add(b, status) ==
    /\ Len(payments) < MaxPayments
    /\ b \in BookingIds
    /\ bookings[b].stored
    /\ status \in PAYMENT_STATUS
    /\ payments' = Append(payments, [booking |-> b, status |-> status,
                                     created_at |-> Len(payments) + 1])
    /\ UNCHANGED <<booked_participants, bookings, hist, pc, req, extras,
                   review_tables>>

\* Staff changes the status of payment i; created_at stays.
payment_change(i, status) ==
    /\ i \in 1..Len(payments)
    /\ status \in PAYMENT_STATUS
    /\ payments[i].status # status
    /\ payments' = [payments EXCEPT ![i].status = status]
    /\ UNCHANGED <<booked_participants, bookings, hist, pc, req, extras,
                   review_tables>>

\* ----------------------------------------------------------------- reviews
\* The names of the URL patterns of the tours app.
TourUrlNames ==
    {"tour_list", "tour_detail", "guide_list", "guide_detail", "tour_compare"}

\* redirect('tours:<name>', ...): a name without a pattern raises
\* NoReverseMatch and the request ends in a server error.
RedirectResult(name) == IF name \in TourUrlNames THEN "ok" ELSE "error"

ReviewIds == 1..Len(reviews)

\* Review.objects.filter(user=request.user, tour_package=tour_package).first()
existing_review(u, t) ==
    \E i \in ReviewIds : reviews[i].user = u /\ reviews[i].tour_package = t

\* ReviewForm.is_valid(): rating has MinValueValidator(1), MaxValueValidator(5).
ReviewFormValid(rating) == rating >= 1 /\ rating <= MaxRating

\* unique_together = ['user', 'tour_package', 'national_park']: a tour review
\* has national_park NULL, and rows with a NULL in a unique index never
\* collide.
ReviewUniqueViolation(u, t, national_park) ==
    /\ national_park # None
    /\ \E i \in ReviewIds : /\ reviews[i].user = u
                            /\ reviews[i].tour_package = t
                            /\ reviews[i].national_park = national_park

\* Creates that passed the existing-review check and have not inserted yet.
ReviewsInFlight == {q \in Procs : pc[q] = "review_save"}

\* Lines 133-150: the package is looked up, then the user's review of it; a
\* valid POST goes on to the save.
create_tour_review(p, u, method, rating) ==
    /\ pc[p] = "idle"
    /\ Len(reviews) + Cardinality(ReviewsInFlight) < MaxReviews
    /\ LET r == [NoReq EXCEPT !.kind = "create_tour_review", !.method = method,
                              !.user = u, !.tour_package = TourOfPage,
                              !.rating = rating]
       IN  IF existing_review(u, TourOfPage)
           THEN Finish(p, [r EXCEPT !.warning = TRUE],
                       RedirectResult("package_detail"))
           ELSE IF ~IsPost(method)
           THEN Finish(p, r, "page")
           ELSE IF ~ReviewFormValid(rating)
           THEN Finish(p, r, "invalid")
           ELSE /\ pc' = [pc EXCEPT ![p] = "review_save"]
                /\ req' = [req EXCEPT ![p] = r]
    /\ UNCHANGED <<booked_participants, bookings, hist, extras, payments,
                   review_tables>>

\* review.save(): the INSERT.
review_save(p) ==
    LET r == req[p]
    IN  /\ pc[p] = "review_save"
        /\ IF ReviewUniqueViolation(r.user, r.tour_package, None)
           THEN Finish(p, r, "error") /\ UNCHANGED reviews
           ELSE /\ reviews' = Append(reviews,
                     [user |-> r.user, tour_package |-> r.tour_package,
                      national_park |-> None, rating |-> r.rating,
                      is_approved |-> TRUE, helpful_votes |-> 0,
                      last_voter |-> 0, votes_before |-> 0])
                /\ pc' = [pc EXCEPT ![p] = "review_rating"]
                /\ req' = [req EXCEPT ![p].review = Len(reviews) + 1]
        /\ UNCHANGED <<booked_participants, bookings, hist, extras, payments,
                       review_helpful, tour_stats>>

ApprovedOf(t) ==
    {i \in ReviewIds : reviews[i].tour_package = t /\ reviews[i].is_approved}

RECURSIVE SumRating(_)
SumRating(S) ==
    IF S = {} THEN 0
    ELSE LET i == CHOOSE x \in S : TRUE
         IN  reviews[i].rating + SumRating(S \ {i})

\* round(Avg('rating'), 2), in hundredths
AvgRating(S) ==
    (SumRating(S) * 200 + Cardinality(S)) \div (2 * Cardinality(S))

\* update_tour_package_rating and the redirect that follows it.
review_rating(p) ==
    LET r == req[p]
        S == ApprovedOf(r.tour_package)
    IN  /\ pc[p] = "review_rating"
        /\ tour_stats' = IF S # {}
                         THEN [average_rating |-> AvgRating(S),
                               total_reviews |-> Cardinality(S)]
                         ELSE tour_stats
        /\ Finish(p, r, RedirectResult("package_detail"))
        /\ UNCHANGED <<booked_participants, bookings, hist, extras, payments,
                       reviews, review_helpful>>

\* The ReviewHelpful rows of a review
VotesOf(review) == {v \in review_helpful : v.review = review}

\* Faulty variant: a second POST leaves the vote as it is.
Toggle_Keep(is_helpful) == is_helpful

\* "helpful_vote.is_helpful = not helpful_vote.is_helpful"
Toggle(is_helpful) == ~is_helpful

\* ReviewHelpful.objects.filter(review=review, is_helpful=True).count()
helpful_count(review) ==
    Cardinality({v \in VotesOf(review) : v.is_helpful})

\* ReviewListView: annotate(helpful_count=Count('helpful_votes_detail'))
ReviewListView_helpful_count(review) == Cardinality(VotesOf(review))

\* Lines 207-215 and 237: anything but a POST is answered {'success': False}; the
\* approved review is looked up; get_or_create finds the user's vote or
\* inserts one with is_helpful = True.
mark_review_helpful(p, u, review_id, method) ==
    /\ pc[p] = "idle"
    /\ LET r == [NoReq EXCEPT !.kind = "mark_review_helpful",
                              !.method = method, !.user = u,
                              !.review = review_id]
           mine == {v \in VotesOf(review_id) : v.user = u}
       IN  IF ~IsPost(method)
           THEN Finish(p, r, "fail") /\ UNCHANGED review_helpful
           ELSE IF ~(review_id \in ReviewIds /\ reviews[review_id].is_approved)
           THEN Finish(p, r, "notfound") /\ UNCHANGED review_helpful
           ELSE IF mine = {}
           THEN /\ review_helpful' = review_helpful \cup
                     {[review |-> review_id, user |-> u, is_helpful |-> TRUE]}
                /\ pc' = [pc EXCEPT ![p] = "helpful_count"]
                /\ req' = [req EXCEPT ![p] = [r EXCEPT !.is_helpful = TRUE]]
           ELSE /\ pc' = [pc EXCEPT ![p] = "helpful_toggle"]
                /\ req' = [req EXCEPT ![p] =
                     [r EXCEPT !.is_helpful = (CHOOSE v \in mine : TRUE).is_helpful]]
                /\ UNCHANGED review_helpful
    /\ UNCHANGED <<booked_participants, bookings, hist, extras, payments,
                   reviews, tour_stats>>

\* helpful_vote.save(): the vote the request loaded, toggled.
helpful_toggle(p) ==
    LET r == req[p]
        new == Toggle(r.is_helpful)
    IN  /\ pc[p] = "helpful_toggle"
        /\ review_helpful' =
             {v \in review_helpful : ~(v.review = r.review /\ v.user = r.user)}
             \cup {[review |-> r.review, user |-> r.user, is_helpful |-> new]}
        /\ pc' = [pc EXCEPT ![p] = "helpful_count"]
        /\ req' = [req EXCEPT ![p].is_helpful = new]
        /\ UNCHANGED <<booked_participants, bookings, hist, extras, payments,
                       reviews, tour_stats>>

\* The count query.
helpful_count_query(p) ==
    /\ pc[p] = "helpful_count"
    /\ pc' = [pc EXCEPT ![p] = "helpful_save"]
    /\ req' = [req EXCEPT ![p].seen = helpful_count(req[p].review)]
    /\ UNCHANGED <<booked_participants, bookings, hist, extras, payments,
                   review_tables>>

\* review.helpful_votes = helpful_count; review.save().  last_voter and
\* votes_before record the request for the claims: who voted last on the
\* review, and the counter that vote found.
helpful_save(p) ==
    LET r == req[p]
    IN  /\ pc[p] = "helpful_save"
        /\ reviews' = [reviews EXCEPT
                         ![r.review].helpful_votes = r.seen,
                         ![r.review].last_voter = r.user,
                         ![r.review].votes_before =
                             reviews[r.review].helpful_votes]
        /\ Finish(p, [r EXCEPT !.num = r.seen], "ok")
        /\ UNCHANGED <<booked_participants, bookings, hist, extras, payments,
                       review_helpful, tour_stats>>

\* ReviewListView: the approved reviews, each with its helpful_count.
review_list(p) ==
    /\ pc[p] = "idle"
    /\ Finish(p, [NoReq EXCEPT !.kind = "review_list", !.method = "GET",
                               !.remaining =
                                  [i \in {x \in ReviewIds : reviews[x].is_approved}
                                     |-> ReviewListView_helpful_count(i)]],
              "ok")
    /\ UNCHANGED <<booked_participants, bookings, hist, extras, payments,
                   review_tables>>

\* The review requests worker p can serve: reviews written by the users in
\* Writers, votes cast by the users in Voters.
ReviewRequest(p, Writers, Voters) ==
    \/ \E u \in Writers, m \in {"GET", "POST"}, g \in {0, MaxRating - 1, MaxRating} :
          create_tour_review(p, u, m, g)
    \/ review_save(p)
    \/ review_rating(p)
    \/ \E u \in Voters, i \in 1..MaxReviews, m \in {"GET", "POST"} :
          mark_review_helpful(p, u, i, m)
    \/ helpful_toggle(p)
    \/ helpful_count_query(p)
    \/ helpful_save(p)
    \/ review_list(p)
    \/ Respond(p)

\* ------------------------------------------------------------ specifications
\* The requests worker p can serve, for clients U posting windows W (0: none
\* given) and named participants K, with saves ending as in outcomes and mails
\* as in mails.
Request(p, U, W, K, outcomes, mails) ==
    \/ \E u \in U, w \in W, n \in 0..MaxN, k \in K :
         create_booking(p, u, w, n, k)
    \/ \E u \in U, w \in W, n \in 0..MaxN :
         create_booking_quick(p, u, w, n)
    \/ \E o \in outcomes, m \in mails, c \in RefCodes :
         create_booking_txn(p, o, m, c)
    \/ \E o \in outcomes, m \in mails, c \in RefCodes :
         create_booking_quick_txn(p, o, m, c)
    \/ \E u \in U, b \in 1..MaxBookings, m \in {"GET", "POST"} :
         cancel_booking(p, u, b, m)
    \/ cancel_save(p)
    \/ cancel_read(p)
    \/ \E o \in outcomes : cancel_write(p, o)
    \/ Respond(p)

AllIdle == \A p \in Procs : pc[p] = "idle"
OthersIdle(p) == \A q \in Procs \ {p} : pc[q] = "idle"
Quiescent == \A p \in Procs : pc[p] \in {"idle", "done"}

\* One client, the bounded window: the universe of the interleaved runs.
OneUser == {1}
OneWindow == {0, 1}
\* The worker of the runs in which requests do not overlap.
OneWorker == {1}

\* Requests run one after another; saves may fail; staff edits any status.
Next ==
    \/ \E p \in OneWorker : Request(p, OneUser, OneWindow, {0}, SaveOutcomes, MailOk)
    \/ \E b \in 1..MaxBookings, s \in BOOKING_STATUS :
          AllIdle /\ AdminSetStatus(b, s)

Spec == Init /\ [][Next]_vars

\* Requests interleave; every save succeeds; staff confirms.
RaceNext ==
    \/ \E p \in Procs : Request(p, OneUser, OneWindow, {0}, SaveOk, MailOk)
    \/ \E b \in 1..MaxBookings : AdminConfirm(b)

RaceSpec == Init /\ [][RaceNext]_vars

\* Requests run one after another; every save succeeds; staff confirms.
SeqNext ==
    \/ \E p \in OneWorker :
          Request(p, Users, 0..NumWindows, 0..MaxNamed, SaveOk, MailOk)
    \/ \E p \in OneWorker, m \in {"GET", "POST"} :
          get_tour_availability(p, TourOfPage, NoDate, m)
    \/ \E b \in 1..MaxBookings : AllIdle /\ AdminConfirm(b)

SeqSpec == Init /\ [][SeqNext]_vars

\* Requests run one after another; saves and mails may fail; staff confirms.
FaultNext ==
    \/ \E p \in OneWorker :
          Request(p, OneUser, 0..NumWindows, 0..MaxNamed, SaveOutcomes,
                  MailOutcomes)
    \/ \E b \in 1..MaxBookings : AllIdle /\ AdminConfirm(b)

FaultSpec == Init /\ [][FaultNext]_vars

\* Requests of the pages and of the REST API, one after another; staff
\* confirms.
ApiNext ==
    \/ \E p \in OneWorker : Request(p, OneUser, OneWindow, {0}, SaveOk, MailOk)
    \/ \E p \in OneWorker, u \in OneUser, n \in 0..MaxN : api_create(p, u, n)
    \/ \E p \in OneWorker, u \in OneUser, b \in 1..MaxBookings,
          s \in BOOKING_STATUS : api_update(p, u, b, s)
    \/ \E p \in OneWorker, u \in OneUser, b \in 1..MaxBookings :
          api_destroy(p, u, b)
    \/ \E b \in 1..MaxBookings : AllIdle /\ AdminConfirm(b)

ApiSpec == Init /\ [][ApiNext]_vars

\* The whole catalogue: requests run one after another and name any
\* TourAvailability row; the listing is asked for any package and start date.
BrowseNext ==
    \/ \E p \in OneWorker :
          Request(p, OneUser, 0..(NumWindows + 2), {0}, SaveOk, MailOk)
    \/ \E p \in OneWorker, t \in TourPackages, d \in {NoDate, NumWindows},
          m \in {"GET", "POST"} : get_tour_availability(p, t, d, m)
    \/ \E b \in 1..MaxBookings : AllIdle /\ AdminConfirm(b)

BrowseSpec == Init /\ [][BrowseNext]_vars

\* The extras of one stored booking: staff adds and changes them.
ExtraInit ==
    /\ booked_participants = [w \in TourAvailabilityRows |->
                                IF w = 1 THEN 1 ELSE 0]
    /\ bookings = <<[booking_reference |-> 1, user |-> 1,
                     tour_package |-> TourOfPage,
                     tour_availability |-> 1, number_of_participants |-> 1,
                     booking_status |-> "pending", participants |-> 0,
                     stored |-> TRUE]>>
    /\ hist = <<[cancels |-> 0, releases |-> 0]>>
    /\ pc = [p \in Procs |-> "idle"]
    /\ req = [p \in Procs |-> NoReq]
    /\ extras = <<>>
    /\ payments = <<>>
    /\ reviews = <<>>
    /\ review_helpful = {}
    /\ tour_stats = [average_rating |-> 0, total_reviews |-> 0]

ExtraNext ==
    \/ \E b \in 1..MaxBookings, q \in 0..MaxQuantity, u \in 0..MaxUnitPrice,
          t \in 0..MaxAmount : extra_add(b, q, u, t)
    \/ \E i \in 1..MaxExtras, q \in 0..MaxQuantity, u \in 0..MaxUnitPrice,
          t \in 0..MaxAmount : extra_change(i, q, u, t)

ExtraSpec == ExtraInit /\ [][ExtraNext]_vars

\* The admin of two stored bookings: staff adds extras and payments, changes
\* payments, and opens the changelist.
AdminInit ==
    /\ booked_participants = [w \in TourAvailabilityRows |->
                                IF w = NumWindows THEN MaxBookings ELSE 0]
    /\ bookings = [b \in 1..MaxBookings |->
                     [booking_reference |-> b, user |-> 1,
                      tour_package |-> TourOfPage,
                      tour_availability |-> NumWindows,
                      number_of_participants |-> 1,
                      booking_status |-> "pending", participants |-> 0,
                      stored |-> TRUE]]
    /\ hist = [b \in 1..MaxBookings |-> [cancels |-> 0, releases |-> 0]]
    /\ pc = [p \in Procs |-> "idle"]
    /\ req = [p \in Procs |-> NoReq]
    /\ extras = <<>>
    /\ payments = <<>>
    /\ reviews = <<>>
    /\ review_helpful = {}
    /\ tour_stats = [average_rating |-> 0, total_reviews |-> 0]

\* The payment statuses staff enters in these runs.
EnteredStatuses == {"pending", "completed", "refunded"}

AdminNext ==
    \/ \E b \in 1..MaxBookings, q \in {1, MaxQuantity} : extra_add(b, q, 1, 0)
    \/ \E b \in 1..MaxBookings, s \in EnteredStatuses : payment_add(b, s)
    \/ \E i \in 1..MaxPayments, s \in EnteredStatuses : payment_change(i, s)
    \/ \E p \in OneWorker, b \in 1..MaxBookings : changelist_view(p, b)
    \/ \E p \in OneWorker : Respond(p)

AdminSpec == AdminInit /\ [][AdminNext]_vars

\* Review requests run one after another.
ReviewNext == \E p \in OneWorker : ReviewRequest(p, Users, Users)

ReviewSpec == Init /\ [][ReviewNext]_vars

\* Review requests interleave: user 1 writes reviews through any worker, and
\* each worker casts the votes of a user of its own.
ReviewRaceNext == \E p \in Procs : ReviewRequest(p, OneUser, {p})

ReviewRaceSpec == Init /\ [][ReviewRaceNext]_vars

TypeOK ==
    /\ booked_participants \in [TourAvailabilityRows -> Int]
    /\ Len(bookings) <= MaxBookings
    /\ Len(hist) = Len(bookings)
    /\ \A b \in BookingIds : bookings[b].booking_status \in BOOKING_STATUS
    /\ \A p \in Procs : pc[p] \in {"idle", "txn", "cancel_save", "cancel_read",
                                   "cancel_write", "review_save",
                                   "review_rating", "helpful_toggle",
                                   "helpful_count", "helpful_save", "done"}
    /\ Len(payments) <= MaxPayments
    /\ Len(reviews) <= MaxReviews

\* -------------------------------------------------------------------- claims
IsCreate(r) == r.kind \in {"create_booking", "create_booking_quick"}
Holding == {"pending", "confirmed"}
Succeeded == {p \in Procs : req[p].result = "ok"}

RECURSIVE SumN(_)
\* number_of_participants summed over the bookings in S
SumN(S) ==
    IF S = {} THEN 0
    ELSE LET b == CHOOSE x \in S : TRUE
         IN  bookings[b].number_of_participants + SumN(S \ {b})

On(w) == {b \in BookingIds : bookings[b].tour_availability = w}
HoldingOn(w) == {b \in On(w) : bookings[b].booking_status \in Holding}
NotReleasedOn(w) == {b \in On(w) : hist[b].releases = 0}

\* C1 scenario: every worker has just served a create for c participants on the
\* bounded window w, the Booking table was empty before them, and together they
\* ask for more than the window holds.
C1_Scenario(w, c) ==
    /\ max_participants(w) # None
    /\ \A p \in Procs : /\ pc[p] = "done"
                        /\ IsCreate(req[p])
                        /\ req[p].availability = w
                        /\ req[p].num = c
    /\ Len(bookings) = Cardinality(Succeeded)
    /\ NumProcs * c > max_participants(w)

\* C1: K concurrent creates of c participants each against an empty window of
\* capacity C with K * c > C: exactly C \div c succeed, the others fail for
\* insufficient capacity, and booked_participants does not exceed C.
C1_NoOverbooking ==
    \A w \in Windows, c \in 1..MaxN :
        C1_Scenario(w, c) =>
            /\ Cardinality(Succeeded) = max_participants(w) \div c
            /\ \A p \in Procs \ Succeeded : req[p].result = "insufficient"
            /\ booked_participants[w] <= max_participants(w)

\* C2: after every request 0 <= booked_participants <= max_participants holds
\* on every window with a capacity (and the counter is never negative).
C2_CapacityInvariant ==
    \A w \in Windows :
        /\ booked_participants[w] >= 0
        /\ max_participants(w) # None =>
              booked_participants[w] <= max_participants(w)

\* A release has lowered the counter and the window is full again.
C2_Witness ==
    /\ AllIdle
    /\ booked_participants[1] = max_participants(1)
    /\ \E b \in BookingIds : hist[b].releases >= 1

\* C3: between requests, a window's booked_participants is the sum of
\* number_of_participants over its bookings that are pending or confirmed.
C3_StatusCounterConsistency ==
    Quiescent =>
        \A w \in Windows :
            booked_participants[w] = SumN(HoldingOn(w))

\* C4: a single booking, created and then cancelled by exactly one cancel, with
\* nothing else on its window: booked_participants is back at the value it had
\* before the create (0, the table having been empty).
C4_ReserveReleaseSymmetry ==
    (Quiescent /\ Len(bookings) = 1 /\ hist[1].cancels = 1) =>
        booked_participants[bookings[1].tour_availability] = 0

\* C5: once the requests in flight have finished, the counter of a window is
\* what any serial run leaves: the participants of its bookings minus those a
\* cancel has released; no increment and no decrement is lost.
C5_Serializable ==
    Quiescent =>
        \A w \in Windows :
            booked_participants[w] = SumN(NotReleasedOn(w))

\* A cancel POST by the owner that was answered "not found" after an earlier
\* cancel of the same booking had succeeded.
SecondCancelRejected(p, b) ==
    /\ pc[p] = "done"
    /\ req[p].kind = "cancel_booking"
    /\ req[p].method = "POST"
    /\ req[p].booking = b
    /\ req[p].user = bookings[b].user
    /\ req[p].result = "notfound"
    /\ hist[b].cancels = 1

\* C6: cancel_booking called twice in succession on one booking succeeds once,
\* is rejected the second time, and over the two calls the counter is
\* decremented for the booking exactly once.
C6_IdempotentCancel ==
    \A b \in BookingIds :
        /\ hist[b].cancels <= 1
        /\ \A p \in Procs : SecondCancelRejected(p, b) => hist[b].releases = 1

\* Two workers have both served a cancel POST of booking b, which both loaded
\* as confirmed.
BothCancelled(p, q, b) ==
    /\ p # q
    /\ \A x \in {p, q} : /\ pc[x] = "done"
                         /\ req[x].kind = "cancel_booking"
                         /\ req[x].booking = b
                         /\ req[x].previous_status = "confirmed"
                         /\ req[x].result = "ok"

\* C7: two concurrent cancel POSTs of one confirmed booking lower the counter
\* for it one time, not two.
C7_ConcurrentCancelOnce ==
    \A b \in BookingIds : \A p, q \in Procs :
        BothCancelled(p, q, b) => hist[b].releases = 1

\* Worker p takes up a request of the given kind in this step.
Begins(p, kind) ==
    /\ pc[p] = "idle"
    /\ pc'[p] # "idle"
    /\ req'[p].kind = kind

\* C8: a cancel_booking request for a booking whose status is cancelled,
\* completed or refunded when the request looks it up is rejected, and changes
\* neither a booking nor a counter.
C8_CancelOnlyWhenHolding ==
    [][\A p \in Procs, b \in BookingIds :
         (/\ Begins(p, "cancel_booking")
          /\ req'[p].booking = b
          /\ bookings[b].booking_status \notin Holding)
         => (/\ pc'[p] = "done"
             /\ req'[p].result = "notfound"
             /\ UNCHANGED <<bookings, booked_participants>>)]_vars

\* The owner's cancel of a completed or refunded booking was answered "not found".
C8_Witness ==
    \E p \in Procs :
        /\ pc[p] = "done"
        /\ req[p].kind = "cancel_booking"
        /\ req[p].method = "POST"
        /\ req[p].result = "notfound"
        /\ req[p].booking \in BookingIds
        /\ req[p].user = bookings[req[p].booking].user
        /\ bookings[req[p].booking].booking_status \in {"completed", "refunded"}

\* C9: a create for n participants on a window with a capacity and fewer than n
\* spots left (max_participants - booked_participants < n) fails, creates no
\* booking and no participant rows, and leaves booked_participants unchanged.
C9_InsufficientCapacity ==
    [][\A p \in Procs, w \in Windows :
         (/\ Begins(p, "create_booking") \/ Begins(p, "create_booking_quick")
          /\ req'[p].availability = w
          /\ max_participants(w) # None
          /\ max_participants(w) - booked_participants[w] < req'[p].num)
         => (/\ pc'[p] = "done"
             /\ req'[p].result = "insufficient"
             /\ UNCHANGED <<bookings, booked_participants>>)]_vars

\* A create was refused although the window was not yet full.
C9_Witness ==
    \E p \in Procs :
        /\ pc[p] = "done"
        /\ IsCreate(req[p])
        /\ req[p].result = "insufficient"
        /\ booked_participants[req[p].availability] > 0
        /\ booked_participants[req[p].availability]
             < max_participants(req[p].availability)

\* The transaction block of worker p's create ends in this step.
TxnEnds(p) == pc[p] = "txn" /\ pc'[p] # "txn"

\* The step adds p's Booking row with its participant rows.
RowAdded(p) ==
    /\ Len(bookings') = Len(bookings) + 1
    /\ \A b \in BookingIds : bookings'[b] = bookings[b]
    /\ LET row == bookings'[Len(bookings')]
       IN  /\ row.booking_status = "pending"
           /\ row.tour_availability = req[p].availability
           /\ row.number_of_participants = req[p].num
           /\ row.participants = req[p].named

\* The step adds p's count to the counter of p's window, and only that.
CounterAdded(p) ==
    booked_participants' =
        [booked_participants EXCEPT ![req[p].availability] = @ + req[p].num]

AllPersisted(p) == RowAdded(p) /\ CounterAdded(p) /\ req'[p].result = "ok"
NothingPersisted(p) ==
    /\ UNCHANGED <<bookings, booked_participants>>
    /\ req'[p].result = "error"
RowWithoutCounter(p) ==
    /\ RowAdded(p)
    /\ UNCHANGED booked_participants
    /\ req'[p].result = "ok"
    /\ req'[p].warning

ReleaseAttempted(p) == pc[p] = "cancel_write" /\ pc'[p] # "cancel_write"

\* C11: cancel_booking sets the status to cancelled and applies the release to
\* the window's counter together or does neither: a cancel that has saved the
\* status and attempts the release always applies it.
C11_CancelAtomic ==
    [][\A p \in Procs :
         (/\ ReleaseAttempted(p)
          /\ bookings'[req[p].booking].booking_status = "cancelled")
         => booked_participants' =
              [booked_participants EXCEPT
                 ![req[p].availability] = Released(@, req[p].num)]]_vars

C13_ExtraTotal ==
    \A i \in 1..Len(extras) :
        /\ extras[i].quantity >= 1
        /\ extras[i].total_price = extras[i].quantity * extras[i].unit_price

\* An extra was changed and saved again, and its total is a proper product.
C13_Witness ==
    \E i \in 1..Len(extras) :
        /\ extras[i].saves = 2
        /\ extras[i].quantity > 1
        /\ extras[i].unit_price > 1
        /\ extras[i].total_price = MaxAmount

Stored == {b \in BookingIds : bookings[b].stored}

\* C15: every persisted booking has a non-empty booking_reference, and no two
\* persisted bookings have the same one.
C15_UniqueReference ==
    \A a \in Stored :
        /\ bookings[a].booking_reference # NoRef
        /\ \A b \in Stored \ {a} :
              bookings[a].booking_reference # bookings[b].booking_reference

\* Two bookings are stored, and a create that generated the reference of one
\* of them has been turned down.
C15_Witness ==
    /\ Cardinality(Stored) = 2
    /\ \E p \in Procs :
          /\ pc[p] = "done"
          /\ IsCreate(req[p])
          /\ req[p].result = "error"
          /\ \E b \in Stored : bookings[b].booking_reference = req[p].reference

\* The reference worker p's create generates in this step is already stored.
Collides(p) ==
    \E b \in Stored : bookings[b].booking_reference = req'[p].reference

\* C16: a create that passed validation and the capacity check, and whose first
\* generated reference is already in use, still ends with its booking
\* persisted.
C16_CollisionRetried ==
    [][\A p \in Procs :
         (TxnEnds(p) /\ Collides(p)) => RowAdded(p) /\ req'[p].result = "ok"]_vars

\* C17: a create that asks for a non-positive number of participants is
\* rejected as invalid and changes nothing; and the booking a create persists
\* has the number of participants the client asked for, which is >= 1.
C17_NonPositiveRejected ==
    [][\A p \in Procs :
         /\ (/\ Begins(p, "create_booking") \/ Begins(p, "create_booking_quick")
             /\ req'[p].asked < 1)
            => (/\ pc'[p] = "done"
                /\ req'[p].result = "invalid"
                /\ UNCHANGED <<bookings, booked_participants>>)
         /\ (TxnEnds(p) /\ Len(bookings') = Len(bookings) + 1)
            => (/\ bookings'[Len(bookings')].number_of_participants = req[p].asked
                /\ req[p].asked >= 1)]_vars

\* C18: a Booking row comes into existence only in the transaction of a create,
\* in status pending, and together with the addition of its participants to
\* the counter of its window.
C18_PendingWithReservation ==
    [][Len(bookings') > Len(bookings) =>
         \E p \in Procs :
            /\ TxnEnds(p)
            /\ RowAdded(p)
            /\ CounterAdded(p)]_vars

LifecycleTransitions ==
    {<<"pending", "confirmed">>, <<"confirmed", "completed">>,
     <<"pending", "cancelled">>, <<"confirmed", "cancelled">>,
     <<"confirmed", "refunded">>}

\* A cancel that looked booking b up earlier is still at work.
CancelInFlight(b) ==
    \E p \in Procs : /\ pc[p] \in {"cancel_save", "cancel_read", "cancel_write"}
                     /\ req[p].booking = b

\* C19: the status of a booking changes only along pending -> confirmed,
\* confirmed -> completed, pending -> cancelled, confirmed -> cancelled and
\* confirmed -> refunded; and once a booking is cancelled or completed, no
\* later operation changes its status or releases capacity on its behalf.
C19_Lifecycle ==
    [][\A b \in BookingIds :
         /\ bookings'[b].booking_status # bookings[b].booking_status
            => <<bookings[b].booking_status, bookings'[b].booking_status>>
                  \in LifecycleTransitions
         /\ (/\ bookings[b].booking_status \in {"cancelled", "completed"}
             /\ ~CancelInFlight(b))
            => (/\ bookings'[b].booking_status = bookings[b].booking_status
                /\ hist'[b] = hist[b])]_vars

\* C20: no operation of the pages or of the REST API removes a Booking row:
\* every row stays stored, with nothing but its booking_status ever changed.
C20_NeverDeleted ==
    [][\A b \in BookingIds :
         /\ b \in 1..Len(bookings')
         /\ bookings'[b].stored
         /\ [bookings'[b] EXCEPT !.booking_status = bookings[b].booking_status]
               = bookings[b]]_vars

\* The owner's DELETE of a stored booking has been answered, and another
\* booking has been cancelled; both rows are there.
C20_Witness ==
    \E p \in Procs :
        /\ pc[p] = "done"
        /\ req[p].kind = "api_destroy"
        /\ OwnBooking(req[p].user, req[p].booking)
        /\ \E c \in Stored : /\ c # req[p].booking
                             /\ bookings[c].booking_status = "cancelled"

\* C21: a cancel_booking request by a user who is not the booking's owner is
\* answered "not found" and changes neither a booking's status nor a window's
\* counter.
C21_OwnerOnlyCancel ==
    [][\A p \in Procs, b \in BookingIds :
         (/\ Begins(p, "cancel_booking")
          /\ req'[p].booking = b
          /\ req'[p].user # bookings[b].user)
         => (/\ pc'[p] = "done"
             /\ req'[p].result = "notfound"
             /\ UNCHANGED <<bookings, booked_participants>>)]_vars

\* Another user's cancel POST of a confirmed booking has been turned away; the
\* booking is still confirmed and still holds its spots.
C21_Witness ==
    \E p \in Procs, b \in BookingIds :
        /\ pc[p] = "done"
        /\ req[p].kind = "cancel_booking"
        /\ req[p].method = "POST"
        /\ req[p].booking = b
        /\ req[p].user # bookings[b].user
        /\ req[p].result = "notfound"
        /\ bookings[b].stored
        /\ bookings[b].booking_status = "confirmed"
        /\ max_participants(bookings[b].tour_availability) # None
        /\ booked_participants[bookings[b].tour_availability]
             = bookings[b].number_of_participants

\* Worker p takes a step of a cancel_booking request.
CancelStep(p) ==
    \/ Begins(p, "cancel_booking")
    \/ /\ pc[p] \in {"cancel_save", "cancel_read", "cancel_write"}
       /\ pc'[p] # pc[p]

\* What a step of the cancel of booking b may change: the status of b and the
\* counter of b's own window.
CancelFrame(b) ==
    /\ Len(bookings') = Len(bookings)
    /\ UNCHANGED extras
    /\ \A x \in BookingIds \ {b} : bookings'[x] = bookings[x]
    /\ b \in BookingIds =>
          bookings'[b] = [bookings[b] EXCEPT
                            !.booking_status = bookings'[b].booking_status]
    /\ \A w \in Windows :
          (b \in BookingIds /\ w = bookings[b].tour_availability)
          \/ booked_participants'[w] = booked_participants[w]

\* C30: a cancel_booking GET changes nothing; a POST changes only the status
\* of the target booking and at most the booked_participants of that booking's
\* own window.  Every other booking and window, and the target's
\* number_of_participants and tour_availability, stay as they were.
C30_CancelFrame ==
    [][\A p \in Procs :
         CancelStep(p) =>
            /\ CancelFrame(req'[p].booking)
            /\ req'[p].method = "GET" =>
                  UNCHANGED <<bookings, booked_participants>>]_vars

\* A cancel POST has released the spots of a confirmed booking while a second
\* booking holds spots on another window.
C30_Witness ==
    \E p \in Procs, b, x \in BookingIds :
        /\ pc[p] = "done"
        /\ req[p].kind = "cancel_booking"
        /\ req[p].method = "POST"
        /\ req[p].booking = b
        /\ req[p].result = "ok"
        /\ hist[b].releases = 1
        /\ bookings[b].booking_status = "cancelled"
        /\ bookings[x].tour_availability # bookings[b].tour_availability
        /\ bookings[x].booking_status \in Holding
        /\ booked_participants[bookings[x].tour_availability]
             = bookings[x].number_of_participants

\* C24: every window get_tour_availability returns is an open window of the
\* requested tour, its remaining is the window's available_spots (max(0,
\* max_participants - booked_participants), null without max_participants),
\* and the windows come in ascending start_date order.
C24_ListingMatchesProperty ==
    [][\A p \in Procs :
         (Begins(p, "get_tour_availability") /\ req'[p].method = "GET") =>
            LET r == req'[p]
                n == Len(r.listed)
            IN  /\ r.result = "ok"
                /\ DOMAIN r.remaining = {r.listed[i] : i \in 1..n}
                /\ \A i \in 1..n :
                      LET w == r.listed[i]
                      IN  /\ tour_package_of(w) = r.tour_package
                          /\ is_available(w)
                          /\ r.remaining[w] =
                               available_spots(max_participants(w),
                                               booked_participants[w])
                /\ \A i, j \in 1..n :
                      i < j => start_date(r.listed[i]) < start_date(r.listed[j])
       ]_vars

\* The listing of the package of the booking pages shows a sold-out window
\* before a window without max_participants.
C24_Witness ==
    \E p \in Procs :
        /\ pc[p] = "done"
        /\ req[p].kind = "get_tour_availability"
        /\ req[p].result = "ok"
        /\ req[p].tour_package = TourOfPage
        /\ Len(req[p].listed) = NumWindows
        /\ req[p].remaining[req[p].listed[1]] = 0
        /\ req[p].remaining[req[p].listed[NumWindows]] = None

\* C27: the tour_availability of every booking belongs to the booking's
\* tour_package and was open for booking (is_available) when the booking was
\* created, whichever of the two create views stored it.
C27_WindowOfPackage ==
    \A b \in BookingIds :
        bookings[b].stored =>
            /\ tour_package_of(bookings[b].tour_availability)
                 = bookings[b].tour_package
            /\ is_available(bookings[b].tour_availability)

\* What the total of booking b is to be: the extras of the booking, plus the
\* package's price for the booking's accommodation tier times the
\* participants when the package has a price for that tier.
ExpectedTotal(b) ==
    LET tier_price == GetAttr(TourPackagePriceFields,
                              TierField(accommodation_type(b)), TierPrice)
    IN  SumExtras(ExtrasOf(b))
        + (IF tier_price # None
           THEN tier_price * bookings[b].number_of_participants
           ELSE 0)

\* C22: the total computed for a booking is the sum of total_price over its
\* extras plus the package's price for the booking's accommodation tier times
\* number_of_participants; computing it changes no stored state.
C22_TotalIsExtrasPlusTierPrice ==
    [][\A p \in Procs, b \in BookingIds :
         (Begins(p, "changelist_view") /\ req'[p].booking = b) =>
            /\ req'[p].total_price.amount = ExpectedTotal(b)
            /\ UNCHANGED <<bookings, booked_participants, extras, payments>>
       ]_vars

\* What the payment status of booking b is to be: the status of the payment
\* row of b that was inserted last.
ExpectedPaymentStatus(b) ==
    IF PaymentsOf(b) = {} THEN "No payment"
    ELSE LET last == CHOOSE i \in PaymentsOf(b) : \A j \in PaymentsOf(b) : j <= i
         IN  get_status_display(payments[last].status)

\* C23: the payment status shown for a booking is that of its most recently
\* created payment, "No payment" when it has none; the Booking model stores no
\* payment status.
C23_LatestPaymentStatus ==
    [][\A p \in Procs, b \in BookingIds :
         (Begins(p, "changelist_view") /\ req'[p].booking = b) =>
            /\ req'[p].payment_status = ExpectedPaymentStatus(b)
            /\ "payment_status" \notin BookingFields]_vars

\* The changelist shows "Refunded" for a booking whose first payment is
\* completed and whose second is refunded, while another booking shows
\* nothing paid.
C23_Witness ==
    \E p \in Procs, b \in BookingIds :
        /\ pc[p] = "done"
        /\ req[p].kind = "changelist_view"
        /\ req[p].booking = b
        /\ req[p].payment_status = "Refunded"
        /\ Cardinality(PaymentsOf(b)) = 2
        /\ \E i \in PaymentsOf(b) : payments[i].status = "completed"
        /\ \E x \in BookingIds : PaymentsOf(x) = {}

\* Worker p completes a mark_review_helpful POST in this step.
VoteEnds(p) == pc[p] = "helpful_save" /\ pc'[p] = "done"

\* C25: after every mark_review_helpful POST the review's helpful_votes is
\* the number of its ReviewHelpful rows with is_helpful = True; and when the
\* previous POST on the review came from the same user, helpful_votes is back
\* at the value it had before that previous POST.
C25_HelpfulToggle ==
    [][\A p \in Procs :
         VoteEnds(p) =>
            LET i == req[p].review
            IN  /\ reviews'[i].helpful_votes
                     = Cardinality({v \in review_helpful' :
                                      v.review = i /\ v.is_helpful})
                /\ reviews[i].last_voter = req[p].user =>
                      reviews'[i].helpful_votes = reviews[i].votes_before
       ]_vars

\* A user has voted twice in a row on a review that another user finds
\* helpful: the user's vote is stored as not helpful and the counter is back
\* at 1.
C25_Witness ==
    \E p \in Procs, i \in ReviewIds :
        /\ pc[p] = "done"
        /\ req[p].kind = "mark_review_helpful"
        /\ req[p].review = i
        /\ req[p].result = "ok"
        /\ reviews[i].last_voter = req[p].user
        /\ reviews[i].votes_before = 2
        /\ reviews[i].helpful_votes = 1
        /\ [review |-> i, user |-> req[p].user, is_helpful |-> FALSE]
             \in review_helpful

\* C26: once interleaved mark_review_helpful requests of different users have
\* all finished, every review's helpful_votes is the number of its
\* ReviewHelpful rows with is_helpful = True.
C26_ConcurrentVotesCounted ==
    Quiescent =>
        \A i \in ReviewIds : reviews[i].helpful_votes = helpful_count(i)

\* C28: there is at most one Review row per user and tour package, also when
\* two create_tour_review requests of one user for one tour run concurrently.
C28_OneReviewPerUserAndTour ==
    \A i, j \in ReviewIds :
        (reviews[i].user = reviews[j].user
         /\ reviews[i].tour_package = reviews[j].tour_package) => i = j

\* C29: the helpful_count the review list shows for a review equals the
\* review's helpful_votes, after any sequence of mark_review_helpful requests.
C29_ListCountIsCounter ==
    \A p \in Procs :
        (pc[p] = "done" /\ req[p].kind = "review_list") =>
            \A i \in DOMAIN req[p].remaining :
                req[p].remaining[i] = reviews[i].helpful_votes

====
